---- MODULE Spec2Model ----
(***************************************************************************)
(* ImgCrunch (batch_resizer.py): the image batch pipeline.                 *)
(*                                                                         *)
(* The model follows main(): configuration checks, discovery, planning,    *)
(* submission of every task to a process pool, the single collecting loop  *)
(* that updates the statistics and handles the originals (move aside or    *)
(* replace in place), cleanup of the staging directory and the summary.    *)
(* Workers run process_image concurrently with the collecting loop.        *)
(*                                                                         *)
(* Spec is the whole run on the folders of SourceUniverse, PlanSpec the    *)
(* run up to the submission on the folders of ScanUniverse, SizeSpec the   *)
(* whole run on one image of any size, WizardSpec the startup wizard up to *)
(* the planning.                                                           *)
(*                                                                         *)
(* A file name is a sequence of one-character strings, a path is a record  *)
(* [dir, stem, ext]: dir the sequence of directory names from the file     *)
(* system root, stem and ext the file name split at its last dot.          *)
(***************************************************************************)
EXTENDS Integers, Sequences, FiniteSets, TLC

\* ---------------------------------------------------------------- bounds

\* The most files the input tree holds when the run starts.
MaxFiles == 3

\* os.cpu_count() of the machine the run is on.
CpuCount == 2

\* The longest side of an image and the largest --max-size, but for the one
\* larger pair of ImageSides and MaxSizes.
MaxSide == 4

\* ------------------------------------------------------- program constants

WorkerCap == 8

Min(a, b) == IF a <= b THEN a ELSE b

Max(a, b) == IF a >= b THEN a ELSE b

\* min(os.cpu_count() or 4, 8), for cpus the value of os.cpu_count(), 0 when
\* it is None
WorkersFor(cpus) == Min(IF cpus = 0 THEN 4 ELSE cpus, WorkerCap)

\* MAX_WORKERS = min(os.cpu_count() or 4, 8)
MAX_WORKERS == WorkersFor(CpuCount)

OUTPUT_FOLDER_NAME == <<"c", "o", "n", "v", "e", "r", "t", "e", "d">>

ORIGINALS_FOLDER_NAME == <<"o", "r", "i", "g", "i", "n", "a", "l", "s">>

\* tempfile.mkdtemp(dir=input_dir, prefix='.resizer_tmp_'): the prefix and one
\* random character.
TMP_FOLDER_NAME == <<".", "r", "e", "s", "i", "z", "e", "r", "_", "t", "m", "p", "_", "x">>

\* another name mkdtemp can draw for the same prefix
TMP_FOLDER_OTHER == <<".", "r", "e", "s", "i", "z", "e", "r", "_", "t", "m", "p", "_", "y">>

ExtJpg == <<"j", "p", "g">>

ExtJpeg == <<"j", "p", "e", "g">>

ExtPng == <<"p", "n", "g">>

ExtHeic == <<"h", "e", "i", "c">>

ExtAvif == <<"a", "v", "i", "f">>

\* SUPPORTED_EXTENSIONS, without the leading dot (the dot is the record's split).
SUPPORTED_EXTENSIONS ==
    { ExtJpg, ExtJpeg, ExtPng, <<"b", "m", "p">>, <<"t", "i", "f", "f">>,
      <<"t", "i", "f">>, <<"w", "e", "b", "p">>, <<"g", "i", "f">>,
      ExtHeic, <<"h", "e", "i", "f">>, ExtAvif }

\* FORMAT_CONFIG[format]['extension']
FormatExtension(format) ==
    CASE format = "jpeg" -> ExtJpg
      [] format = "heic" -> ExtHeic
      [] format = "avif" -> ExtAvif

\* ------------------------------------------------------------ characters

LowerLetters ==
    <<"a", "b", "c", "d", "e", "f", "g", "h", "i", "j", "k", "l", "m",
      "n", "o", "p", "q", "r", "s", "t", "u", "v", "w", "x", "y", "z">>

UpperLetters ==
    <<"A", "B", "C", "D", "E", "F", "G", "H", "I", "J", "K", "L", "M",
      "N", "O", "P", "Q", "R", "S", "T", "U", "V", "W", "X", "Y", "Z">>

Digits == <<"0", "1", "2", "3", "4", "5", "6", "7", "8", "9">>

IndexIn(seq, c) ==
    IF \E i \in 1..Len(seq) : seq[i] = c
    THEN CHOOSE i \in 1..Len(seq) : seq[i] = c
    ELSE 0

\* The code point of a character: the order str comparison uses.
Ord(c) ==
    CASE IndexIn(Digits, c) > 0 -> 47 + IndexIn(Digits, c)
      [] IndexIn(UpperLetters, c) > 0 -> 64 + IndexIn(UpperLetters, c)
      [] IndexIn(LowerLetters, c) > 0 -> 96 + IndexIn(LowerLetters, c)
      [] c = "." -> 46
      [] c = "/" -> 47
      [] c = "_" -> 95
      [] OTHER -> 0

\* str.upper() and str.lower(), one character at a time.
UpperChar(c) ==
    IF IndexIn(LowerLetters, c) > 0 THEN UpperLetters[IndexIn(LowerLetters, c)] ELSE c

LowerChar(c) ==
    IF IndexIn(UpperLetters, c) > 0 THEN LowerLetters[IndexIn(UpperLetters, c)] ELSE c

Upper(s) == [i \in 1..Len(s) |-> UpperChar(s[i])]

Lower(s) == [i \in 1..Len(s) |-> LowerChar(s[i])]

\* s < t for two strings, as Python compares str.
RECURSIVE StrLess(_, _)
StrLess(s, t) ==
    IF t = <<>> THEN FALSE
    ELSE IF s = <<>> THEN TRUE
    ELSE IF Ord(Head(s)) # Ord(Head(t)) THEN Ord(Head(s)) < Ord(Head(t))
    ELSE StrLess(Tail(s), Tail(t))

\* str.startswith
StartsWith(s, prefix) ==
    /\ Len(prefix) <= Len(s)
    /\ SubSeq(s, 1, Len(prefix)) = prefix

\* ------------------------------------------------------------------ paths

MkPath(dir, stem, ext) == [dir |-> dir, stem |-> stem, ext |-> ext]

\* Path.name
FileName(p) == p.stem \o <<".">> \o p.ext

\* Path.parts, without the root
Parts(p) == p.dir \o <<FileName(p)>>

RECURSIVE JoinDirs(_)
JoinDirs(dir) ==
    IF dir = <<>> THEN <<>> ELSE <<"/">> \o Head(dir) \o JoinDirs(Tail(dir))

\* str(directory)
DirStr(dir) == JoinDirs(dir)

\* str(path)
PathStr(p) == JoinDirs(p.dir) \o <<"/">> \o FileName(p)

\* Path.with_suffix
WithSuffix(p, ext) == [p EXCEPT !.ext = ext]

\* Path.relative_to: the path below root, for a path that lies under root.
RelativeTo(p, root) == [p EXCEPT !.dir = SubSeq(p.dir, Len(root) + 1, Len(p.dir))]

\* directory / relative_path
Under(dir, rel) == [rel EXCEPT !.dir = dir \o rel.dir]

IsUnder(p, dir) ==
    /\ Len(dir) <= Len(p.dir)
    /\ SubSeq(p.dir, 1, Len(dir)) = dir

\* Path.__lt__: the parts compared as a tuple of str.
RECURSIVE PartsLess(_, _)
PartsLess(a, b) ==
    IF b = <<>> THEN FALSE
    ELSE IF a = <<>> THEN TRUE
    ELSE IF Head(a) # Head(b) THEN StrLess(Head(a), Head(b))
    ELSE PartsLess(Tail(a), Tail(b))

PathLess(p, q) == PartsLess(Parts(p), Parts(q))

\* sorted(set(...)) of paths
RECURSIVE SortPaths(_)
SortPaths(S) ==
    IF S = {} THEN <<>>
    ELSE LET least == CHOOSE p \in S : \A q \in S \ {p} : PathLess(p, q)
         IN  <<least>> \o SortPaths(S \ {least})

\* ------------------------------------------------------- run configuration

InputDir == << <<"i", "n">> >>

ExternalDir == << <<"o", "u", "t">> >>

NoDir == <<>>

NoName == <<>>

RenameBase == <<"r">>

\* The parsed arguments (or the wizard's answers) and the two facts of the
\* environment main() asks about before it plans anything.
\* --no-move and --output are read in move-aside mode only and HEIF_AVAILABLE
\* for the heic and avif formats only, so each is varied only where the run
\* reads it. tmp is the name mkdtemp draws for the staging folder of a
\* replace-in-place run.
Configs ==
    { c \in [ format : {"jpeg", "heic"},
              heif_available : BOOLEAN,
              input_exists : BOOLEAN,
              replace : BOOLEAN,
              no_move : BOOLEAN,
              output : {NoDir, ExternalDir},
              rename : {NoName, RenameBase},
              max_size : {2},
              tmp : {TMP_FOLDER_NAME} ] :
        /\ c.replace => ~c.no_move /\ c.output = NoDir
        /\ c.format = "jpeg" => c.heif_available }

\* ------------------------------------------------------------ file system

\* What a file holds: the pixels of source `of` at w x h, as the untouched
\* original ("orig"), as a completely encoded conversion ("conv"), as an
\* encoding cut short ("partial") or as the bytes of two encoders writing the
\* same open file ("garbled"); `by` are the tasks that have it open for writing.
\* `clash` says that two of them had it open at once.
OrigContent(p, w, h) ==
    [kind |-> "orig", of |-> p, w |-> w, h |-> h, by |-> {}, clash |-> FALSE]

SrcA == MkPath(InputDir, <<"a">>, ExtJpg)

SrcB == MkPath(InputDir, <<"a">>, ExtPng)

SrcC == MkPath(InputDir, <<"b">>, ExtPng)

SrcD == MkPath(InputDir \o << <<"s">> >>, <<"b">>, ExtPng)

SourceUniverse == {SrcA, SrcB, SrcC, SrcD}

SourceWidth(p) == IF p = SrcA THEN 4 ELSE IF p = SrcC THEN 1 ELSE 2

SourceHeight(p) == IF p = SrcA THEN 2 ELSE IF p = SrcB THEN 1 ELSE 2

\* a symbolic link in the input folder to a file of the external folder
SrcLink == MkPath(InputDir, <<"r", "_", "0", "0", "1">>, ExtJpg)

\* the symbolic links of the file universe, each with the path it points to
SymLinks == [p \in {SrcLink} |-> MkPath(ExternalDir, p.stem, p.ext)]

InitialFiles(S) == [p \in S |-> OrigContent(p, SourceWidth(p), SourceHeight(p))]

\* The files of the folders the planning is checked on: extensions in upper
\* and in mixed case, a file that is no image, files inside the output and
\* the originals folder, a folder and a file whose names begin with the name
\* of an excluded folder, a symbolic link and a file of a subfolder.
ScanUpper == MkPath(InputDir, <<"p">>, Upper(ExtJpg))

ScanMixed == MkPath(InputDir, <<"q">>, <<"J", "p", "g">>)

ScanText == MkPath(InputDir, <<"n">>, <<"t", "x", "t">>)

ScanOutput == MkPath(InputDir \o <<OUTPUT_FOLDER_NAME>>, <<"a">>, ExtJpg)

ScanOriginals == MkPath(InputDir \o <<ORIGINALS_FOLDER_NAME>>, <<"a">>, ExtPng)

ScanSibling == MkPath(InputDir \o <<OUTPUT_FOLDER_NAME \o <<"_", "o", "l", "d">> >>, <<"a">>, ExtPng)

ScanNamesake == MkPath(InputDir, ORIGINALS_FOLDER_NAME, ExtPng)

ScanUniverse ==
    {ScanUpper, ScanMixed, ScanText, ScanOutput, ScanOriginals, ScanSibling,
     ScanNamesake, SrcLink, SrcD}

\* The files of the folders the wizard's detection is checked on.
DetectUniverse ==
    { MkPath(InputDir, <<"a">>, ExtJpg),
      MkPath(InputDir, <<"b">>, ExtPng),
      MkPath(InputDir, <<"c">>, ExtHeic),
      MkPath(InputDir, <<"d">>, Upper(ExtHeic)),
      MkPath(InputDir, <<"e">>, <<"h", "e", "i", "f">>),
      MkPath(InputDir, <<"f">>, ExtAvif),
      MkPath(InputDir, <<"g">>, Upper(ExtAvif)) }

\* st_size of a file
FileSize(c) ==
    CASE c.kind = "orig" -> 2 * c.w * c.h
      [] c.kind = "conv" -> c.w * c.h
      [] OTHER -> 1

Exists(f, p) == p \in DOMAIN f

\* os.unlink
Remove(f, p) == [q \in DOMAIN f \ {p} |-> f[q]]

\* a write of content c at path p
Put(f, p, c) == [q \in DOMAIN f \cup {p} |-> IF q = p THEN c ELSE f[q]]

\* os.rename(src, dst): dst is replaced when it exists
Rename(f, src, dst) ==
    [q \in (DOMAIN f \ {src}) \cup {dst} |-> IF q = dst THEN f[src] ELSE f[q]]

\* shutil.rmtree(dir)
RemoveTree(f, dir) == [q \in {r \in DOMAIN f : ~IsUnder(r, dir)} |-> f[q]]

\* ------------------------------------------------------------- discovery

\* find_images: rglob of '*' + ext and of '*' + ext.upper() for every supported
\* extension, as a sorted list without duplicates.
find_images(f, input_dir) ==
    SortPaths({ p \in DOMAIN f :
                  /\ IsUnder(p, input_dir)
                  /\ \E ext \in SUPPORTED_EXTENSIONS : p.ext = ext \/ p.ext = Upper(ext) })

\* EXT_TO_FORMAT.get(ext, 'jpeg')
EXT_TO_FORMAT(ext) ==
    IF ext \in {ExtHeic, <<"h", "e", "i", "f">>} THEN "heic"
    ELSE IF ext = ExtAvif THEN "avif"
    ELSE "jpeg"

\* counts[fmt] once the loop over images is done
FormatCount(imgs, fmt) ==
    Cardinality({i \in 1..Len(imgs) : EXT_TO_FORMAT(Lower(imgs[i].ext)) = fmt})

\* where fmt was inserted into the Counter: at the first image of that format
FirstOf(imgs, fmt) ==
    CHOOSE i \in 1..Len(imgs) :
        /\ EXT_TO_FORMAT(Lower(imgs[i].ext)) = fmt
        /\ \A j \in 1..(i - 1) : EXT_TO_FORMAT(Lower(imgs[j].ext)) # fmt

\* counts.most_common(1)[0][0]: the highest count, the earliest inserted of
\* the formats that share it
MostCommon(imgs) ==
    LET seen == {fmt \in {"jpeg", "heic", "avif"} : FormatCount(imgs, fmt) > 0}
    IN  CHOOSE fmt \in seen :
            \A other \in seen \ {fmt} :
                \/ FormatCount(imgs, fmt) > FormatCount(imgs, other)
                \/ /\ FormatCount(imgs, fmt) = FormatCount(imgs, other)
                   /\ FirstOf(imgs, fmt) < FirstOf(imgs, other)

\* the detection without the majority test
detect_most_common_format(imgs) == IF imgs = <<>> THEN "jpeg" ELSE MostCommon(imgs)

\* detect_dominant_format; counts[dominant] > total * 0.5 is exact in doubles
\* for these counts and is the same as 2 * counts[dominant] > total
detect_dominant_format(imgs) ==
    IF imgs = <<>> THEN "jpeg"
    ELSE LET dominant == MostCommon(imgs)
             total == Len(imgs)
         IN  IF 2 * FormatCount(imgs, dominant) > total THEN dominant ELSE "jpeg"

\* [img for img in all_images if not any(str(img).startswith(d) for d in exclude_dirs)]
RECURSIVE SelectPaths(_, _)
SelectPaths(s, excl) ==
    IF s = <<>> THEN <<>>
    ELSE IF \E d \in excl : StartsWith(PathStr(Head(s)), d)
         THEN SelectPaths(Tail(s), excl)
         ELSE <<Head(s)>> \o SelectPaths(Tail(s), excl)

\* output_dir and originals_dir of main()
\* a staging folder drawn in every mode, whatever --replace-in-place and
\* --output say
OutputDirAlwaysDrawn(c) == InputDir \o <<c.tmp>>

OutputDir(c) ==
    IF c.replace THEN InputDir \o <<c.tmp>>
    ELSE IF c.output # NoDir THEN c.output
    ELSE InputDir \o <<OUTPUT_FOLDER_NAME>>

OriginalsDir(c) == IF c.replace THEN NoDir ELSE InputDir \o <<ORIGINALS_FOLDER_NAME>>

ExcludeDirs(c) ==
    {DirStr(OutputDir(c))} \cup
    (IF OriginalsDir(c) # NoDir THEN {DirStr(OriginalsDir(c))} ELSE {})

\* images of main(): the discovered files outside the excluded directories
PlannedImages(f, c) == SelectPaths(find_images(f, InputDir), ExcludeDirs(c))

\* -------------------------------------------------------------- planning

\* str(n) for n >= 0
RECURSIVE DecStr(_)
DecStr(n) == IF n < 10 THEN <<Digits[n + 1]>> ELSE DecStr(n \div 10) \o <<Digits[(n % 10) + 1]>>

\* str.zfill
RECURSIVE ZFill(_, _)
ZFill(s, width) == IF Len(s) >= width THEN s ELSE ZFill(<<"0">> \o s, width)

\* the destination with the number always padded to three digits
get_output_path_three_digits(input_path, output_dir, input_root, extension, rename_base, rename_index, total_count) ==
    IF rename_base # NoName
    THEN MkPath(output_dir, rename_base \o <<"_">> \o ZFill(DecStr(rename_index), 3), extension)
    ELSE Under(output_dir, WithSuffix(RelativeTo(input_path, input_root), extension))

get_output_path(input_path, output_dir, input_root, extension, rename_base, rename_index, total_count) ==
    IF rename_base # NoName
    THEN LET pad_width == Max(3, Len(DecStr(total_count)))
         IN  MkPath(output_dir,
                    rename_base \o <<"_">> \o ZFill(DecStr(rename_index), pad_width),
                    extension)
    ELSE Under(output_dir, WithSuffix(RelativeTo(input_path, input_root), extension))

\* the task list built without the comparison of source and destination
RECURSIVE BuildTasksUnguarded(_, _, _, _)
BuildTasksUnguarded(f, imgs, idx, c) ==
    IF idx > Len(imgs) THEN <<>>
    ELSE << [input |-> imgs[idx],
             output |-> get_output_path(imgs[idx], OutputDir(c), InputDir,
                                        FormatExtension(c.format), c.rename,
                                        idx, Len(imgs))] >>
         \o BuildTasksUnguarded(f, imgs, idx + 1, c)

\* Path.resolve(): a symbolic link that exists is followed to its target
resolve(f, p) == IF Exists(f, p) /\ p \in DOMAIN SymLinks THEN SymLinks[p] ELSE p

\* the task list of main(): one (source, destination) pair per image, but for
\* the images whose resolved destination is the resolved source itself
RECURSIVE BuildTasks(_, _, _, _)
BuildTasks(f, imgs, idx, c) ==
    IF idx > Len(imgs) THEN <<>>
    ELSE LET img_path == imgs[idx]
             output_path == get_output_path(img_path, OutputDir(c), InputDir,
                                            FormatExtension(c.format), c.rename,
                                            idx, Len(imgs))
         IN  (IF resolve(f, output_path) = resolve(f, img_path) THEN <<>>
              ELSE << [input |-> img_path, output |-> output_path] >>)
             \o BuildTasks(f, imgs, idx + 1, c)

\* ------------------------------------------------------------- transform

\* the size test without the convert-only case
needs_resize_always(width, height, max_size) == width > max_size \/ height > max_size

needs_resize(width, height, max_size) ==
    IF max_size = 0 THEN FALSE ELSE width > max_size \/ height > max_size

\* int(side * (target / longest)) is computed in IEEE-754 doubles: the
\* quotient is rounded, then the product, then int() truncates. The result is
\* the truncated exact quotient except where the exact quotient is a whole
\* number and the rounded product falls just below it. FloatShort lists these
\* <<side, target, longest>> among all arguments from 0 to 24 with
\* side <= longest (square images only: 22x22 at target 15 gives 14).
FloatShort ==
    { <<11, 15, 11>>, <<13, 15, 13>>, <<22, 15, 22>>, <<23, 13, 23>> }

\* int(side * (target / longest))
ScaleSide(side, target, longest) ==
    IF <<side, target, longest>> \in FloatShort
    THEN (side * target) \div longest - 1
    ELSE (side * target) \div longest

calculate_new_size(width, height, target) ==
    IF width >= height
    THEN <<target, ScaleSide(height, target, width)>>
    ELSE <<ScaleSide(width, target, height), target>>

\* the result dictionary process_image starts from
NewResult ==
    [error |-> FALSE, resized |-> FALSE, orig_w |-> 0, orig_h |-> 0,
     has_size |-> FALSE, new_w |-> 0, new_h |-> 0,
     input_bytes |-> 0, output_bytes |-> 0]

\* a handler that swallows the exception without recording it
FailedUnrecorded(r) == r

\* except Exception as e: result['error'] = str(e)
Failed(r) == [r EXCEPT !.error = TRUE]

\* line 380: result['original_size'] = (width, height)
Measured(r, width, height) == [r EXCEPT !.orig_w = width, !.orig_h = height]

\* line 385: Image.resize raises ValueError for a size with a side below 1
ResizeRaises(width, height, max_size) ==
    /\ needs_resize(width, height, max_size)
    /\ LET new == calculate_new_size(width, height, max_size)
       IN  new[1] < 1 \/ new[2] < 1

\* lines 379-400: the resize decision and the sizes it records
Sized(r, width, height, max_size) ==
    IF needs_resize(width, height, max_size)
    THEN LET new == calculate_new_size(width, height, max_size)
         IN  [Measured(r, width, height) EXCEPT
                 !.resized = TRUE, !.has_size = TRUE, !.new_w = new[1], !.new_h = new[2]]
    ELSE [Measured(r, width, height) EXCEPT
                 !.has_size = TRUE, !.new_w = width, !.new_h = height]

\* a file PIL decodes: a whole image, not one cut short or overwritten
Decodable(c) == c.kind \in {"orig", "conv"}

\* ------------------------------------------------------------------ state

VARIABLES
    cfg,        \* the run configuration (args and environment)
    detected,   \* the format the startup wizard detected, "none" without wizard
    fs,         \* the file system: path -> content, for the files that exist
    staging,    \* the staging directory tmp_dir: "none", "present", "removed"
    pc,         \* where main() is
    images,     \* the planned image list
    tasks,      \* the task list: (img_path, output_path) pairs
    submitted,  \* how many tasks executor.submit was called for
    wpc,        \* per task, where its process_image call is
    wread,      \* per task, the image its worker has decoded
    result,     \* per task, the result dictionary of process_image
    consumed,   \* the tasks whose future as_completed has yielded
    cpc,        \* where the collecting loop is within one result: "idle", "move"
    cur,        \* the task whose result the collecting loop is handling
    stats,      \* the stats dictionary
    unlinked,   \* history: the tasks whose img_path.unlink() was done
    placed,     \* history: the tasks whose staged file was moved into place
    aside,      \* history: the tasks whose source was moved to originals
    warned,     \* history: the tasks a "Could not ..." warning was printed for
    threw,      \* history: the tasks whose process_image had an exception raised
    writeFailed,\* history: the tasks whose img.save raised
    envFailed,  \* history: the tasks whose delete or move the file system refused
    fs0,        \* history: the file system the run started on
    rmCount     \* history: how often the staging directory was removed

vars == <<cfg, detected, fs, staging, pc, images, tasks, submitted, wpc, wread, result,
          consumed, cpc, cur, stats, unlinked, placed, aside, warned, threw,
          writeFailed, envFailed, fs0, rmCount>>

history == <<unlinked, placed, aside, warned, threw, writeFailed, envFailed, fs0>>

moves == <<unlinked, placed, aside, warned, envFailed, fs0>>

TaskIds == 1..Len(tasks)

InitialStats ==
    [processed |-> 0, resized |-> 0, errors |-> 0, moved |-> 0, replaced |-> 0,
     total_input_bytes |-> 0, total_output_bytes |-> 0]

\* nothing is planned, submitted or collected yet
NothingDone ==
    /\ detected = "none"
    /\ staging = "none"
    /\ images = <<>>
    /\ tasks = <<>>
    /\ submitted = 0
    /\ wpc = <<>>
    /\ wread = <<>>
    /\ result = <<>>
    /\ consumed = {}
    /\ cpc = "idle"
    /\ cur = 0
    /\ stats = InitialStats
    /\ unlinked = {}
    /\ placed = {}
    /\ aside = {}
    /\ warned = {}
    /\ threw = {}
    /\ writeFailed = {}
    /\ envFailed = {}
    /\ fs0 = fs
    /\ rmCount = 0

Init ==
    /\ cfg \in Configs
    /\ \E S \in SUBSET SourceUniverse :
          /\ Cardinality(S) <= MaxFiles
          /\ ~cfg.input_exists => S = {}
          /\ fs = InitialFiles(S)
    /\ pc = "start"
    /\ NothingDone

\* ------------------------------------------------------------------- main

\* startup_wizard: the folder is scanned and the detected format is offered as
\* the default of the format question; the user takes the default or names a
\* format; the wizard gives up when the format needs pillow-heif and it is
\* missing, or when the user does not confirm. cfg holds the other answers.
Wizard ==
    /\ pc = "wizard"
    /\ LET scanned_images == find_images(fs, InputDir)
           detected_format == detect_dominant_format(scanned_images)
       IN  /\ detected' = detected_format
           /\ \E choice \in {"", "jpeg", "heic", "avif"}, confirm \in BOOLEAN :
                 LET format_key == IF choice = "" THEN detected_format ELSE choice
                 IN  IF (format_key \in {"heic", "avif"} /\ ~cfg.heif_available) \/ ~confirm
                     THEN /\ pc' = "exit_wizard"
                          /\ cfg' = cfg
                     ELSE /\ pc' = "start"
                          /\ cfg' = [cfg EXCEPT !.format = format_key]
    /\ UNCHANGED <<fs, staging, images, tasks, submitted, wpc, wread, result, consumed,
                   cpc, cur, stats, history, rmCount>>

\* the checks without the one for pillow-heif
ConfigErrorFolderOnly(c) == ~c.input_exists

\* lines 526-536: the checks that end the run before anything is planned
ConfigError(c) ==
    \/ c.format \in {"heic", "avif"} /\ ~c.heif_available
    \/ ~c.input_exists

\* lines 526-552: the configuration checks, then the staging directory
Configure ==
    /\ pc = "start"
    /\ IF ConfigError(cfg)
       THEN /\ pc' = "exit_error"
            /\ staging' = staging
       ELSE /\ pc' = "discover"
            /\ staging' = IF cfg.replace THEN "present" ELSE staging
    /\ UNCHANGED <<cfg, detected, fs, images, tasks, submitted, wpc, wread, result, consumed,
                   cpc, cur, stats, history, rmCount>>

\* lines 573-593: discovery; without images the run ends here
Discover ==
    /\ pc = "discover"
    /\ images' = PlannedImages(fs, cfg)
    /\ IF images' = <<>>
       THEN /\ pc' = "exit_no_images"
            /\ staging' = IF cfg.replace THEN "removed" ELSE staging
            /\ rmCount' = IF cfg.replace THEN rmCount + 1 ELSE rmCount
       ELSE /\ pc' = "plan"
            /\ UNCHANGED <<staging, rmCount>>
    /\ UNCHANGED <<cfg, detected, fs, tasks, submitted, wpc, wread, result, consumed, cpc, cur,
                   stats, history>>

\* lines 596-604: the task list
Plan ==
    /\ pc = "plan"
    /\ tasks' = BuildTasks(fs, images, 1, cfg)
    /\ wpc' = [t \in 1..Len(tasks') |-> "unsubmitted"]
    /\ wread' = [t \in 1..Len(tasks') |-> <<>>]
    /\ result' = [t \in 1..Len(tasks') |-> NewResult]
    /\ pc' = "submit"
    /\ UNCHANGED <<cfg, detected, fs, staging, images, submitted, consumed, cpc, cur, stats,
                   history, rmCount>>

\* lines 623-628: executor.submit, one task after the other in list order
Submit ==
    /\ pc = "submit"
    /\ submitted < Len(tasks)
    /\ submitted' = submitted + 1
    /\ wpc' = [wpc EXCEPT ![submitted + 1] = "queued"]
    /\ UNCHANGED <<cfg, detected, fs, staging, pc, images, tasks, wread, result, consumed, cpc,
                   cur, stats, history, rmCount>>

\* line 631: every task is submitted, the collecting loop starts
StartCollecting ==
    /\ pc = "submit"
    /\ submitted = Len(tasks)
    /\ pc' = "collect"
    /\ UNCHANGED <<cfg, detected, fs, staging, images, tasks, submitted, wpc, wread, result,
                   consumed, cpc, cur, stats, history, rmCount>>

\* ---------------------------------------------------------------- workers

Running == {t \in TaskIds : wpc[t] \in {"decoded", "saving", "stat"}}

Queued == {t \in TaskIds : wpc[t] = "queued"}

\* a pool that starts a process for every task that waits
NextQueuedAtOnce(t) ==
    /\ t \in Queued
    /\ \A u \in Queued : t <= u

\* a free worker process takes the task that has waited longest
NextQueued(t) ==
    /\ t \in Queued
    /\ \A u \in Queued : t <= u
    /\ Cardinality(Running) < MAX_WORKERS

\* process_image returns: the future of task t is done
Return(t, r) ==
    /\ result' = [result EXCEPT ![t] = r]
    /\ wpc' = [wpc EXCEPT ![t] = "done"]
    /\ wread' = [wread EXCEPT ![t] = <<>>]

\* lines 413-416: an exception raised in the try block is caught and returned
Caught(t, r) ==
    /\ Return(t, Failed(r))
    /\ threw' = threw \cup {t}

\* the content img.save has written when it returns
Encoded(t, c, of, r, clean) ==
    IF ~c.clash \/ clean
    THEN [c EXCEPT !.kind = "conv", !.of = of, !.w = r.new_w, !.h = r.new_h,
                   !.by = c.by \ {t}]
    ELSE [c EXCEPT !.kind = "garbled", !.by = c.by \ {t}]

\* the content img.save leaves when it raises half way: the file stays, cut short
Abandoned(t, c) ==
    [c EXCEPT !.kind = IF c.clash THEN "garbled" ELSE "partial", !.by = c.by \ {t}]

\* lines 353-377: the size of the source, then Image.open and the decoding
WorkerOpen(t) ==
    /\ pc \in {"submit", "collect"}
    /\ NextQueued(t)
    /\ LET src == tasks[t].input
       IN  IF ~Exists(fs, src)
           THEN Caught(t, NewResult)
           ELSE LET c == fs[src]
                    r == [NewResult EXCEPT !.input_bytes = FileSize(c)]
                IN  \E ok \in BOOLEAN :
                       IF ok /\ Decodable(c)
                       THEN /\ wpc' = [wpc EXCEPT ![t] = "decoded"]
                            /\ wread' = [wread EXCEPT ![t] = <<c>>]
                            /\ result' = [result EXCEPT ![t] = r]
                            /\ UNCHANGED threw
                       ELSE Caught(t, r)
    /\ UNCHANGED <<cfg, detected, fs, staging, pc, images, tasks, submitted, consumed, cpc, cur,
                   stats, moves, writeFailed, rmCount>>

\* lines 379-409: the resize, then img.save opens the destination for writing
WorkerBeginSave(t) ==
    /\ t \in TaskIds
    /\ wpc[t] = "decoded"
    /\ LET out == tasks[t].output
           c == wread[t][1]
           r == Sized(result[t], c.w, c.h, cfg.max_size)
           open == IF Exists(fs, out) THEN fs[out].by ELSE {}
       IN  IF ResizeRaises(c.w, c.h, cfg.max_size)
           THEN /\ Caught(t, Measured(result[t], c.w, c.h))
                /\ UNCHANGED fs
           ELSE /\ result' = [result EXCEPT ![t] = r]
                /\ fs' = Put(fs, out,
                             [kind |-> IF open = {} THEN "partial" ELSE "garbled",
                              of |-> c.of, w |-> r.new_w, h |-> r.new_h,
                              by |-> open \cup {t}, clash |-> open # {}])
                /\ wpc' = [wpc EXCEPT ![t] = "saving"]
                /\ UNCHANGED <<wread, threw>>
    /\ UNCHANGED <<cfg, detected, staging, pc, images, tasks, submitted, consumed, cpc,
                   cur, stats, moves, writeFailed, rmCount>>

\* line 409: img.save writes the encoded image and returns, or raises
WorkerEndSave(t) ==
    /\ t \in TaskIds
    /\ wpc[t] = "saving"
    /\ LET mine == {p \in DOMAIN fs : t \in fs[p].by}
       IN  \E ok \in BOOLEAN, clean \in BOOLEAN :
              IF ok
              THEN /\ fs' = [p \in DOMAIN fs |->
                               IF p \in mine
                               THEN Encoded(t, fs[p], wread[t][1].of, result[t], clean)
                               ELSE fs[p]]
                   /\ wpc' = [wpc EXCEPT ![t] = "stat"]
                   /\ UNCHANGED <<result, wread, threw, writeFailed>>
              ELSE /\ fs' = [p \in DOMAIN fs |->
                               IF p \in mine THEN Abandoned(t, fs[p]) ELSE fs[p]]
                   /\ Caught(t, result[t])
                   /\ writeFailed' = writeFailed \cup {t}
    /\ UNCHANGED <<cfg, detected, staging, pc, images, tasks, submitted, consumed, cpc, cur,
                   stats, moves, rmCount>>

\* line 411: the size of the written file
WorkerStat(t) ==
    /\ t \in TaskIds
    /\ wpc[t] = "stat"
    /\ LET out == tasks[t].output
       IN  IF Exists(fs, out)
           THEN /\ Return(t, [result[t] EXCEPT !.output_bytes = FileSize(fs[out])])
                /\ UNCHANGED threw
           ELSE Caught(t, result[t])
    /\ UNCHANGED <<cfg, detected, fs, staging, pc, images, tasks, submitted, consumed, cpc, cur,
                   stats, moves, writeFailed, rmCount>>

\* -------------------------------------------------------------- collector

\* as_completed yields the futures that are done, each once
Completed == {t \in TaskIds : wpc[t] = "done"}

\* the replaced counter bumped with the processed one, before the move
\* the bytes read from a source counted although its transform failed
StatsAfterCountingFailedBytes(st, r) ==
    IF r.error
    THEN [st EXCEPT !.errors = @ + 1,
                    !.total_input_bytes = @ + r.input_bytes]
    ELSE [st EXCEPT !.processed = @ + 1,
                    !.total_input_bytes = @ + r.input_bytes,
                    !.total_output_bytes = @ + r.output_bytes,
                    !.resized = IF r.resized THEN @ + 1 ELSE @]

StatsAfterCountingReplaced(st, r) ==
    IF r.error
    THEN [st EXCEPT !.errors = @ + 1]
    ELSE [st EXCEPT !.processed = @ + 1,
                    !.replaced = @ + 1,
                    !.total_input_bytes = @ + r.input_bytes,
                    !.total_output_bytes = @ + r.output_bytes,
                    !.resized = IF r.resized THEN @ + 1 ELSE @]

\* lines 635-648: the counters a result changes
StatsAfter(st, r) ==
    IF r.error
    THEN [st EXCEPT !.errors = @ + 1]
    ELSE [st EXCEPT !.processed = @ + 1,
                    !.total_input_bytes = @ + r.input_bytes,
                    !.total_output_bytes = @ + r.output_bytes,
                    !.resized = IF r.resized THEN @ + 1 ELSE @]

\* the original handled without looking at result['error']
OriginalActionIgnoringError(c, r) ==
    IF c.replace THEN "replace"
    ELSE IF ~c.no_move THEN "move_aside"
    ELSE "none"

\* lines 635, 661 and 679: what is done with the original of a result
OriginalAction(c, r) ==
    IF r.error THEN "none"
    ELSE IF c.replace THEN "replace"
    ELSE IF ~c.no_move THEN "move_aside"
    ELSE "none"

\* line 666: final_path = img_path.with_suffix(fmt['extension'])
FinalPath(img_path, c) == WithSuffix(img_path, FormatExtension(c.format))

\* the originals folder without the subfolder structure
OriginalsDestFlat(input_path, originals_dir, input_root) ==
    Under(originals_dir, [input_path EXCEPT !.dir = <<>>])

\* move_to_originals: the place in the originals folder
OriginalsDest(input_path, originals_dir, input_root) ==
    Under(originals_dir, RelativeTo(input_path, input_root))

\* lines 672 and 683: the counter of a finished original action
CountReplaced(st) == [st EXCEPT !.replaced = @ + 1]

\* the move counted on the counter of the other mode
CountMovedAsReplaced(st) == [st EXCEPT !.replaced = @ + 1]

CountMoved(st) == [st EXCEPT !.moved = @ + 1]

\* a loop that takes the next future while a replace is under way
CollectorNeverBusy == TRUE

\* lines 631-692: the loop body runs to its end before the next future is taken
CollectorFree == cpc = "idle"

\* lines 631-689 for one result: the statistics, then the first step on the
\* original (img_path.unlink() when replacing, the whole move when moving aside)
Collect(t) ==
    /\ pc = "collect"
    /\ CollectorFree
    /\ t \in Completed \ consumed
    /\ consumed' = consumed \cup {t}
    /\ LET r == result[t]
           src == tasks[t].input
           st == StatsAfter(stats, r)
           action == OriginalAction(cfg, r)
       IN  \E ok \in BOOLEAN :
              CASE action = "replace" ->
                     IF ok /\ Exists(fs, src)
                     THEN /\ fs' = Remove(fs, src)
                          /\ unlinked' = unlinked \cup {t}
                          /\ cpc' = "move"
                          /\ cur' = t
                          /\ stats' = st
                          /\ UNCHANGED <<placed, aside, warned, envFailed>>
                     ELSE /\ warned' = warned \cup {t}
                          /\ envFailed' = IF Exists(fs, src) THEN envFailed \cup {t} ELSE envFailed
                          /\ stats' = st
                          /\ UNCHANGED <<fs, cpc, cur, unlinked, placed, aside>>
                [] action = "move_aside" ->
                     IF ok /\ Exists(fs, src)
                     THEN /\ fs' = Rename(fs, src, OriginalsDest(src, OriginalsDir(cfg), InputDir))
                          /\ aside' = aside \cup {t}
                          /\ stats' = CountMoved(st)
                          /\ UNCHANGED <<cpc, cur, unlinked, placed, warned, envFailed>>
                     ELSE /\ warned' = warned \cup {t}
                          /\ envFailed' = IF Exists(fs, src) THEN envFailed \cup {t} ELSE envFailed
                          /\ stats' = st
                          /\ UNCHANGED <<fs, cpc, cur, unlinked, placed, aside>>
                [] OTHER ->
                     /\ stats' = st
                     /\ UNCHANGED <<fs, cpc, cur, moves>>
    /\ UNCHANGED <<cfg, detected, staging, pc, images, tasks, submitted, wpc, wread, result,
                   threw, writeFailed, fs0, rmCount>>

\* lines 670-678: shutil.move of the staged file to the final path
MoveStaged ==
    /\ pc = "collect"
    /\ cpc = "move"
    /\ LET converted_path == tasks[cur].output
           final_path == FinalPath(tasks[cur].input, cfg)
       IN  \E ok \in BOOLEAN :
              IF ok /\ Exists(fs, converted_path)
              THEN /\ fs' = Rename(fs, converted_path, final_path)
                   /\ stats' = CountReplaced(stats)
                   /\ placed' = placed \cup {cur}
                   /\ UNCHANGED <<warned, envFailed>>
              ELSE /\ warned' = warned \cup {cur}
                   /\ envFailed' = IF Exists(fs, converted_path)
                                   THEN envFailed \cup {cur} ELSE envFailed
                   /\ UNCHANGED <<fs, stats, placed>>
    /\ cpc' = "idle"
    /\ cur' = 0
    /\ UNCHANGED <<cfg, detected, staging, pc, images, tasks, submitted, wpc, wread, result,
                   consumed, unlinked, aside, threw, writeFailed, fs0, rmCount>>

\* a pool left as soon as the loop is between two results
PoolLeftEarly == cpc = "idle" /\ consumed # {}

\* the end of the with block: every future was yielded and handled
PoolDrained ==
    /\ cpc = "idle"
    /\ consumed = TaskIds

Drain ==
    /\ pc = "collect"
    /\ PoolDrained
    /\ pc' = "cleanup"
    /\ UNCHANGED <<cfg, detected, fs, staging, images, tasks, submitted, wpc, wread, result,
                   consumed, cpc, cur, stats, history, rmCount>>

\* cleanup skipped when a task failed
CleanupUnlessErrors(c) == c.replace /\ stats.errors = 0

\* line 698: if replace_mode
ShouldCleanup(c) == c.replace

\* lines 697-702: shutil.rmtree(tmp_dir, ignore_errors=True) in replace mode
Cleanup ==
    /\ pc = "cleanup"
    /\ IF ShouldCleanup(cfg)
       THEN /\ fs' = RemoveTree(fs, OutputDir(cfg))
            /\ staging' = "removed"
            /\ rmCount' = rmCount + 1
       ELSE UNCHANGED <<fs, staging, rmCount>>
    /\ pc' = "summary"
    /\ UNCHANGED <<cfg, detected, images, tasks, submitted, wpc, wread, result, consumed, cpc,
                   cur, stats, history>>

\* lines 704-711: print_summary
Summary ==
    /\ pc = "summary"
    /\ pc' = "done"
    /\ UNCHANGED <<cfg, detected, fs, staging, images, tasks, submitted, wpc, wread, result,
                   consumed, cpc, cur, stats, history, rmCount>>

Open == \E t \in TaskIds : WorkerOpen(t)

BeginSave == \E t \in TaskIds : WorkerBeginSave(t)

EndSave == \E t \in TaskIds : WorkerEndSave(t)

Stat == \E t \in TaskIds : WorkerStat(t)

CollectResult == \E t \in TaskIds : Collect(t)

Next ==
    \/ Configure
    \/ Discover
    \/ Plan
    \/ Submit
    \/ StartCollecting
    \/ Open
    \/ BeginSave
    \/ EndSave
    \/ Stat
    \/ CollectResult
    \/ MoveStaged
    \/ Drain
    \/ Cleanup
    \/ Summary

Spec == Init /\ [][Next]_vars

\* the scheduling the pool and the interpreter give: a step that can be taken
\* is taken (every transform call returns, the main thread runs on)
\* Liveness is checked on the runs that write jpeg files under their own names
\* to the default output folder, in every mode and on every file tree.
FairInit == Init /\ cfg.format = "jpeg" /\ cfg.rename = NoName /\ cfg.output = NoDir

FairSpec == FairInit /\ [][Next]_vars /\ WF_vars(Next)

\* ---- planning: the run up to the submission, on the folders of ScanUniverse

\* the configurations of Configs, a replace-in-place run with either of the
\* names mkdtemp can draw
ScanConfigs ==
    Configs \cup {[c EXCEPT !.tmp = TMP_FOLDER_OTHER] : c \in {d \in Configs : d.replace}}

ScanInit ==
    /\ cfg \in ScanConfigs
    /\ \E S \in SUBSET ScanUniverse :
          /\ Cardinality(S) <= MaxFiles
          /\ ~cfg.input_exists => S = {}
          /\ fs = InitialFiles(S)
    /\ pc = "start"
    /\ NothingDone

PlanNext ==
    \/ Configure
    \/ Discover
    \/ Plan
    \/ Submit
    \/ StartCollecting

PlanSpec == ScanInit /\ [][PlanNext]_vars

\* ---- sizes: the whole run on one image of any width and height

\* the widths and heights, and the values of --max-size (0: convert only)
ImageSides == 1..MaxSide \cup {22}

MaxSizes == 0..MaxSide \cup {15}

SizeConfigs ==
    { c \in [ format : {"jpeg"},
              heif_available : {TRUE},
              input_exists : {TRUE},
              replace : BOOLEAN,
              no_move : {FALSE},
              output : {NoDir},
              rename : {NoName},
              max_size : MaxSizes,
              tmp : {TMP_FOLDER_NAME} ] : TRUE }

SizeInit ==
    /\ cfg \in SizeConfigs
    /\ \E width \in ImageSides, height \in ImageSides :
          fs = [p \in {SrcC} |-> OrigContent(p, width, height)]
    /\ pc = "start"
    /\ NothingDone

SizeSpec == SizeInit /\ [][Next]_vars

\* ---- detection: the startup wizard up to the planning

\* the answers the wizard can return: no output folder, no_move as replace,
\* a rename base only when the originals are kept
WizardAnswers ==
    { c \in [ format : {"jpeg"},
              heif_available : BOOLEAN,
              input_exists : {TRUE},
              replace : BOOLEAN,
              no_move : BOOLEAN,
              output : {NoDir},
              rename : {NoName, RenameBase},
              max_size : {0},
              tmp : {TMP_FOLDER_NAME} ] :
        /\ c.no_move = c.replace
        /\ c.replace => c.rename = NoName }

WizardInit ==
    /\ cfg \in WizardAnswers
    /\ \E S \in SUBSET DetectUniverse :
          /\ Cardinality(S) <= MaxFiles
          /\ fs = InitialFiles(S)
    /\ pc = "wizard"
    /\ NothingDone

WizardNext ==
    \/ Wizard
    \/ Configure
    \/ Discover
    \/ Plan

WizardSpec == WizardInit /\ [][WizardNext]_vars

\* ----------------------------------------------------------------- claims

RunEnded == pc = "done"

FailedTasks == {t \in TaskIds : wpc[t] = "done" /\ result[t].error}

SucceededTasks == {t \in TaskIds : wpc[t] = "done" /\ ~result[t].error}

\* the source of task t is at its path with the content the run started on
SourceUntouched(t) ==
    /\ Exists(fs, tasks[t].input)
    /\ fs[tasks[t].input] = fs0[tasks[t].input]

\* C1: when the run has ended, the source of every task whose transform
\* failed is still at its original path with its content of before the run,
\* in move-aside and in replace-in-place mode, whatever the other tasks did.
C1_FailedSourceUntouched ==
    RunEnded => \A t \in FailedTasks : SourceUntouched(t)

\* the tasks of a replace-in-place run whose staged file is in place: the
\* original is gone and the final path holds the conversion of that source
FullyReplaced(t) ==
    LET src == tasks[t].input
        final == FinalPath(src, cfg)
    IN  /\ src # final => ~Exists(fs, src)
        /\ Exists(fs, final)
        /\ fs[final].kind = "conv"
        /\ fs[final].of = src

\* C2: in replace-in-place mode, when the staging write fails for one file of
\* the batch (and nothing else fails), every other file is fully replaced
\* when the run has ended.
C2_OthersFullyReplaced ==
    ( /\ RunEnded
      /\ cfg.replace
      /\ Cardinality(writeFailed) = 1
      /\ FailedTasks = writeFailed
      /\ envFailed = {} )
    => \A t \in TaskIds \ writeFailed : FullyReplaced(t)

PoolClosed == pc \in {"cleanup", "summary", "done"}

\* C3: every scheduled task gives the collector exactly one result: an
\* exception inside the transform is returned as a result whose error is set, the
\* counters processed + errors count every consumed result once, and once the
\* pool has drained they add up to the number of scheduled tasks.
C3_OneResultPerTask ==
    /\ \A t \in threw : wpc[t] = "done" /\ result[t].error
    /\ writeFailed \subseteq threw
    /\ consumed \subseteq Completed
    /\ stats.processed + stats.errors = Cardinality(consumed)
    /\ stats.errors = Cardinality(consumed \cap FailedTasks)
    /\ PoolClosed => /\ consumed = TaskIds
                     /\ stats.processed + stats.errors = Len(tasks)

C3_Witness ==
    /\ RunEnded
    /\ writeFailed # {}
    /\ SucceededTasks # {}
    /\ Len(tasks) >= 3

\* C4: in replace-in-place mode the original of a task is deleted only after
\* the task's transform has returned success (its staged output is written),
\* the staged file is moved to the original's path with the target extension
\* only after that delete, and neither is done for a task whose transform has
\* not succeeded.
C4_ReplaceOrder ==
    [][ /\ \A t \in unlinked' \ unlinked :
              /\ t \in SucceededTasks
              /\ t \notin placed'
        /\ \A t \in placed' \ placed :
              /\ t \in unlinked
              /\ t \in SucceededTasks
              /\ ~Exists(fs', tasks[t].output)
              /\ Exists(fs', FinalPath(tasks[t].input, cfg))
        /\ (unlinked' # unlinked \/ placed' # placed) => cfg.replace ]_vars

C4_Witness ==
    /\ cfg.replace
    /\ placed # {}
    /\ FailedTasks # {}
    /\ RunEnded

\* the tasks in the window: original deleted, staged file not yet in place
InWindow == unlinked \ placed

\* the slot of a task holds its intact original or its whole conversion
SlotIntact(t) ==
    \/ SourceUntouched(t)
    \/ LET final == FinalPath(tasks[t].input, cfg)
       IN  /\ Exists(fs, final)
           /\ fs[final].kind = "conv"
           /\ fs[final].of = tasks[t].input

\* C5: in replace-in-place mode (the file system refusing nothing), in every
\* state at most one file is in the window between the delete of its original
\* and the move of its staged file, and the path of every other file holds
\* its intact original or its completely written conversion.
C5_OneSlotAtRisk ==
    (cfg.replace /\ envFailed = {})
    => /\ Cardinality(InWindow) <= 1
       /\ \A t \in TaskIds \ InWindow : SlotIntact(t)

\* the original content of a source is at its path or at its mirrored path
\* in the originals folder
OriginalKept(p) ==
    \/ Exists(fs, p) /\ fs[p] = fs0[p]
    \/ LET q == OriginalsDest(p, OriginalsDir(cfg), InputDir)
       IN  Exists(fs, q) /\ fs[q] = fs0[p]

\* C6: in move-aside mode a source is moved to the originals folder, at its
\* path relative to the input root, only after its own transform has
\* succeeded, and in every state the original content of every source is at
\* its original path or at its mirrored path under originals.
C6_MoveAsideKeepsOriginals ==
    /\ [](~cfg.replace => \A p \in DOMAIN fs0 : OriginalKept(p))
    /\ [][ \A t \in aside' \ aside :
              /\ ~cfg.replace
              /\ t \in SucceededTasks
              /\ ~Exists(fs', tasks[t].input)
              /\ OriginalKept(tasks[t].input)' ]_vars

C6_Witness ==
    /\ ~cfg.replace
    /\ RunEnded
    /\ FailedTasks # {}
    /\ \E t \in aside : Len(tasks[t].input.dir) > Len(InputDir)
    /\ \E t \in aside : Len(tasks[t].input.dir) = Len(InputDir)

AllTasksDone == \A t \in TaskIds : wpc[t] = "done"

\* C7: a failing task neither cancels nor blocks another: once the tasks are
\* planned every one of them completes and the run reaches its summary, and
\* cleanup and summary come only after every scheduled task has completed and
\* its result was consumed, also when tasks failed.
C7_PoolDrainsBeforeCompletion ==
    /\ [](PoolClosed => AllTasksDone /\ consumed = TaskIds /\ cpc = "idle")
    /\ (pc = "submit") ~> (AllTasksDone /\ RunEnded)

C7_Witness ==
    /\ RunEnded
    /\ Len(tasks) >= 3
    /\ 1 \in FailedTasks
    /\ SucceededTasks # {}

\* a step of a worker process: a process_image call moves on
WorkerStep ==
    /\ tasks' = tasks
    /\ submitted' = submitted
    /\ wpc' # wpc

\* C8: the statistics change and the originals are deleted or moved only in
\* steps of the collecting loop, never in a step of a worker, and the loop
\* takes a result only when it has finished with the one before: no two
\* results are ever in handling at once.
C8_SingleCollector ==
    [][ /\ WorkerStep =>
              /\ stats' = stats
              /\ moves' = moves
              /\ consumed' = consumed
              /\ \A t \in TaskIds : Exists(fs', tasks[t].input) = Exists(fs, tasks[t].input)
        /\ consumed' # consumed =>
              /\ cpc = "idle"
              /\ cur = 0
              /\ Cardinality(consumed' \ consumed) = 1
              /\ cur' \in (consumed' \ consumed) \cup {0}
        /\ stats' # stats =>
              \/ consumed' # consumed
              \/ cpc = "move" /\ cur \in consumed /\ consumed' = consumed
        /\ (cpc' = "move") => cur' \in consumed' ]_vars

C8_Witness ==
    /\ cpc = "move"
    /\ \E t \in TaskIds : wpc[t] = "saving"
    /\ \E t \in Completed \ consumed : t < cur

\* the files in the staging directory
StagedFiles == {p \in DOMAIN fs : IsUnder(p, InputDir \o <<cfg.tmp>>)}

\* C9: in replace-in-place mode the staging directory is removed once, after
\* the pool has drained and every result was consumed, whether or not tasks
\* failed, and it is gone when the run exits, the exit without images included.
C9_StagingRemovedOnce ==
    /\ rmCount <= 1
    /\ (staging = "removed") = (rmCount = 1)
    /\ ~cfg.replace => staging = "none" /\ rmCount = 0
    /\ (rmCount = 1 /\ pc # "exit_no_images") =>
          /\ pc \in {"summary", "done"}
          /\ AllTasksDone
          /\ consumed = TaskIds
    /\ staging # "present" => StagedFiles = {}
    /\ (cfg.replace /\ pc \in {"summary", "done", "exit_no_images"}) => staging = "removed"
    /\ pc = "exit_error" => staging = "none"

C9_Witness ==
    /\ cfg.replace
    /\ RunEnded
    /\ FailedTasks # {}
    /\ writeFailed # {}
    /\ placed # {}

\* C10 as stated: a task whose delete or move failed is counted as errored and
\* not as replaced in the final statistics.
C10_CountedAsErrored ==
    (RunEnded /\ cfg.replace) =>
        /\ stats.errors = Cardinality(FailedTasks \cup warned)
        /\ stats.replaced = Cardinality(TaskIds \ (FailedTasks \cup warned))

\* C10, amended: when the delete or the move of the replace pair fails for a
\* task, a warning is reported and the batch continues to its end; the file is
\* not counted as replaced and not counted as errored either: it stays
\* counted as processed.
C10_WarnedStaysProcessed ==
    cfg.replace =>
        /\ warned \subseteq SucceededTasks \cap consumed
        /\ warned \cap placed = {}
        /\ \A t \in consumed \cap SucceededTasks :
              t \in warned \/ t \in placed \/ (cpc = "move" /\ cur = t)
        /\ stats.replaced = Cardinality(placed)
        /\ RunEnded =>
              /\ stats.errors = Cardinality(FailedTasks)
              /\ stats.processed = Cardinality(SucceededTasks)
              /\ stats.replaced = stats.processed - Cardinality(warned)
              /\ consumed = TaskIds

C10_Witness ==
    /\ cfg.replace
    /\ RunEnded
    /\ \E t \in warned : t \in unlinked /\ \E u \in placed : u > t
    /\ \E t \in warned : t \notin unlinked
    /\ stats.errors = 0

\* C11: in move-aside mode a failing move of a source to the originals folder
\* is a warning only: the step changes no file, so the converted output stays
\* in the output folder; the task stays counted as processed, the moved
\* counter counts the moves that were done, and the batch goes on to consume
\* every other result.
C11_MoveFailureIsWarning ==
    /\ [](~cfg.replace =>
            /\ warned \subseteq SucceededTasks \cap consumed
            /\ warned \cap aside = {}
            /\ \A t \in warned : Exists(fs, tasks[t].output)
            /\ stats.moved = Cardinality(aside)
            /\ stats.replaced = 0
            /\ stats.processed = Cardinality(consumed \cap SucceededTasks)
            /\ (~cfg.no_move) => aside \cup warned = consumed \cap SucceededTasks
            /\ RunEnded => consumed = TaskIds)
    /\ [][ (~cfg.replace /\ warned' # warned) =>
              /\ fs' = fs
              /\ stats'.moved = stats.moved
              /\ stats'.processed = stats.processed + 1
              /\ stats'.errors = stats.errors
              /\ pc' = "collect" /\ cpc' = "idle" ]_vars

C11_Witness ==
    /\ ~cfg.replace
    /\ RunEnded
    /\ \E t \in warned : \E u \in aside : u \notin FailedTasks /\ t < u
    /\ \E t \in warned : \E u \in aside : u < t
    /\ stats.errors = 0

\* the elements of a list
Range(s) == {s[i] : i \in DOMAIN s}

\* the run has its image list: it goes on to plan, or ends without images
Discovered == pc \in {"plan", "exit_no_images"}

\* the files under the input root whose extension, compared without regard
\* to case, is a supported one
SupportedFiles ==
    {p \in DOMAIN fs0 : IsUnder(p, InputDir) /\ Lower(p.ext) \in SUPPORTED_EXTENSIONS}

\* the files the exclusion of main() lets through
PassesExclusion(p) == ~\E d \in ExcludeDirs(cfg) : StartsWith(PathStr(p), d)

\* C12: discovery returns every file under the input root whose extension,
\* compared case-insensitively, is in the supported set (any mix of upper and
\* lower case), each file once, in lexicographic path order: the image list
\* holds exactly those of these files that the exclusion lets through, without
\* duplicates and in ascending order.
C12_DiscoveryIgnoresCase ==
    Discovered =>
        /\ Range(images) = {p \in SupportedFiles : PassesExclusion(p)}
        /\ \A i \in 1..Len(images) : \A j \in 1..Len(images) :
              i < j => PathLess(images[i], images[j])

\* under the folder dir, at any depth
LiesUnder(p, dir) == dir # NoDir /\ IsUnder(p, dir)

\* C13: a discovered image is left out of the planned image list if and only
\* if it lies under the output folder or under the originals folder; a file
\* or a folder whose name only begins with the name of one of them is kept.
C13_ExcludedIffInside ==
    Discovered =>
        \A p \in Range(find_images(fs0, InputDir)) :
            p \notin Range(images)
            <=> (LiesUnder(p, OutputDir(cfg)) \/ LiesUnder(p, OriginalsDir(cfg)))

\* the destination planned for the image at position i of the image list
PlannedDestination(i) ==
    get_output_path(images[i], OutputDir(cfg), InputDir, FormatExtension(cfg.format),
                    cfg.rename, i, Len(images))

\* the images whose destination, symbolic links followed, is the image itself
SelfOverwriting ==
    {i \in 1..Len(images) : resolve(fs0, PlannedDestination(i)) = resolve(fs0, images[i])}

Planned == pc \in {"submit", "collect"}

\* C14: no task whose resolved destination is its resolved source is
\* scheduled, in either mode, with any output folder, with or without rename:
\* the task list holds one task for every image but these, and only tasks of
\* the task list are handed to the pool.
C14_NoSelfOverwrite ==
    /\ \A t \in TaskIds :
          resolve(fs0, tasks[t].output) # resolve(fs0, tasks[t].input)
    /\ Planned =>
          /\ {tasks[t].input : t \in TaskIds}
                = {images[i] : i \in (1..Len(images)) \ SelfOverwriting}
          /\ Len(tasks) = Len(images) - Cardinality(SelfOverwriting)
    /\ submitted <= Len(tasks)
    /\ \A t \in TaskIds : (wpc[t] # "unsubmitted") = (t <= submitted)

C14_Witness ==
    /\ pc = "collect"
    /\ cfg.rename = NoName
    /\ SelfOverwriting # {}
    /\ submitted >= 2

\* the results of the transforms that have measured their image
MeasuredTasks == {t \in TaskIds : result[t].orig_w > 0}

\* C15: for max-size > 0 and every image of width w and height h: when
\* max(w, h) <= max-size the transform reports resized = false and final
\* dimensions (w, h); otherwise it reports resized = true, the longer final
\* side is max-size exactly and the other final side is within 1 pixel of its
\* exact aspect-ratio value truncated toward zero.
C15_ResizeToMaxSize ==
    cfg.max_size > 0 =>
        \A t \in MeasuredTasks :
            LET r == result[t]
                w == r.orig_w
                h == r.orig_h
                m == cfg.max_size
            IN  IF Max(w, h) <= m
                THEN /\ ~r.resized
                     /\ r.has_size /\ r.new_w = w /\ r.new_h = h
                ELSE /\ r.resized
                     /\ r.has_size
                     /\ Max(r.new_w, r.new_h) = m
                     /\ IF w >= h
                        THEN /\ r.new_w = m
                             /\ r.new_h - (h * m) \div w \in {-1, 0, 1}
                        ELSE /\ r.new_h = m
                             /\ r.new_w - (w * m) \div h \in {-1, 0, 1}

\* C16: with max-size = 0, for an image of any width and height, a transform
\* that gets as far as the size decision records final dimensions equal to the
\* original ones and resized = false; so does every successful transform, the
\* file it writes has the original dimensions, and no transform fails at the
\* resize.
C16_ConvertOnlyKeepsSize ==
    cfg.max_size = 0 =>
        /\ \A t \in MeasuredTasks :
              /\ ~result[t].resized
              /\ result[t].has_size
              /\ result[t].new_w = result[t].orig_w
              /\ result[t].new_h = result[t].orig_h
              /\ result[t].orig_w = fs0[tasks[t].input].w
              /\ result[t].orig_h = fs0[tasks[t].input].h
        /\ \A t \in SucceededTasks : t \in MeasuredTasks
        /\ \A t \in placed :
              LET final == fs[FinalPath(tasks[t].input, cfg)]
              IN  final.w = fs0[tasks[t].input].w /\ final.h = fs0[tasks[t].input].h
        /\ stats.resized = 0

C16_Witness ==
    /\ cfg.max_size = 0
    /\ RunEnded
    /\ \E t \in SucceededTasks \cap placed :
          /\ result[t].orig_w = 22
          /\ result[t].orig_h = 1

\* the number of decimal digits of n >= 0
RECURSIVE DigitCount(_)
DigitCount(n) == IF n < 10 THEN 1 ELSE 1 + DigitCount(n \div 10)

\* the number a string of decimal digits stands for
RECURSIVE NumeralValue(_)
NumeralValue(s) ==
    IF s = <<>> THEN 0
    ELSE 10 * NumeralValue(SubSeq(s, 1, Len(s) - 1)) + (IndexIn(Digits, s[Len(s)]) - 1)

\* p is output_root/{base}_{i zero-padded to max(3, digits of n)}{extension}
IsRenamed(p, i, n) ==
    LET width == Max(3, DigitCount(n))
        lead == Len(cfg.rename) + 1
    IN  /\ p.dir = OutputDir(cfg)
        /\ p.ext = FormatExtension(cfg.format)
        /\ Len(p.stem) = lead + width
        /\ SubSeq(p.stem, 1, lead) = cfg.rename \o <<"_">>
        /\ \A k \in (lead + 1)..Len(p.stem) : IndexIn(Digits, p.stem[k]) > 0
        /\ NumeralValue(SubSeq(p.stem, lead + 1, Len(p.stem))) = i

\* C17 as stated: with a rename base, the task at position i of the N
\* scheduled tasks has the flat destination
\* output_root/{base}_{i zero-padded to max(3, digits of N)}{extension}.
C17_NumberedByTask ==
    (Planned /\ cfg.rename # NoName) =>
        \A t \in TaskIds : IsRenamed(tasks[t].output, t, Len(tasks))

\* the position of a path in the image list
ImageIndex(p) == CHOOSE i \in 1..Len(images) : images[i] = p

\* the counts the pad width is checked for beyond the folders of the model
SampleCounts == {7, 999, 1000, 9999, 10000, 12345}

\* C17, amended: with a rename base, every scheduled task has the flat
\* destination output_root/{base}_{i zero-padded to max(3, digits of N)}
\* {extension}, where N is the number of planned images and i the 1-based
\* position of the source in the planned image list: an image dropped as
\* self-overwriting keeps its number, which is then missing from the outputs.
C17_NumberedByImage ==
    cfg.rename # NoName =>
        /\ Planned =>
              \A t \in TaskIds :
                  IsRenamed(tasks[t].output, ImageIndex(tasks[t].input), Len(images))
        /\ \A n \in SampleCounts : \A i \in {1, n} :
              IsRenamed(get_output_path(SrcD, OutputDir(cfg), InputDir,
                                        FormatExtension(cfg.format), cfg.rename, i, n),
                        i, n)

C17_Witness ==
    /\ pc = "collect"
    /\ cfg.rename # NoName
    /\ SelfOverwriting # {}
    /\ \E t \in TaskIds :
          /\ Len(tasks[t].input.dir) > Len(InputDir)
          /\ ImageIndex(tasks[t].input) # t

\* the formats whose extensions make up the heic-like and the avif-like bucket
BucketExtensions(fmt) ==
    IF fmt = "heic" THEN {ExtHeic, <<"h", "e", "i", "f">>}
    ELSE {ExtAvif}

\* the images the wizard's scan found
Scanned == find_images(fs0, InputDir)

\* how many of the scanned images are in the bucket of fmt
BucketSize(fmt) ==
    Cardinality({i \in 1..Len(Scanned) : Lower(Scanned[i].ext) \in BucketExtensions(fmt)})

\* C18: the detection returns the heic-like or the avif-like bucket exactly
\* when that bucket holds strictly more than half of all scanned images, and
\* jpeg-like in every other case: a tie, an exact half, an empty folder.
C18_StrictMajority ==
    detected # "none" =>
        /\ detected \in {"jpeg", "heic", "avif"}
        /\ \A fmt \in {"heic", "avif"} :
              (detected = fmt) <=> (2 * BucketSize(fmt) > Len(Scanned))
        /\ Len(Scanned) = 0 => detected = "jpeg"

C18_Witness ==
    /\ detected = "jpeg"
    /\ Len(Scanned) = 2
    /\ BucketSize("heic") = 1
    /\ BucketSize("avif") = 1

\* the sum of f[t] over the tasks in S
RECURSIVE SumOver(_, _)
SumOver(f, S) ==
    IF S = {} THEN 0
    ELSE LET t == CHOOSE u \in S : TRUE
         IN  f[t] + SumOver(f, S \ {t})

\* the counters of a run in which nothing fails, from the plan and the files
\* of before the run alone, and the byte totals of the results
PlannedStats ==
    LET src == [t \in TaskIds |-> fs0[tasks[t].input]]
    IN  [processed |-> Len(tasks),
         resized |-> Cardinality({t \in TaskIds :
                                    needs_resize(src[t].w, src[t].h, cfg.max_size)}),
         errors |-> 0,
         moved |-> IF ~cfg.replace /\ ~cfg.no_move THEN Len(tasks) ELSE 0,
         replaced |-> IF cfg.replace THEN Len(tasks) ELSE 0,
         total_input_bytes |-> SumOver([t \in TaskIds |-> result[t].input_bytes], TaskIds),
         total_output_bytes |-> SumOver([t \in TaskIds |-> result[t].output_bytes], TaskIds)]

\* C19: the tasks are handed to the pool in the order of the task list, which
\* is the ascending path order of the discovery; the results are consumed in
\* the order of completion; and the final statistics do not depend on that
\* order: when no transform raises and the file system refuses nothing, the
\* counters are those the plan determines and the byte totals are the sums
\* over the results.
C19_OrderFreeStatistics ==
    /\ \A i \in TaskIds : \A j \in TaskIds :
          i < j => PathLess(tasks[i].input, tasks[j].input)
    /\ \A t \in TaskIds : (wpc[t] # "unsubmitted") = (t <= submitted)
    /\ consumed \subseteq Completed
    /\ (RunEnded /\ threw = {} /\ envFailed = {}) => stats = PlannedStats

\* the requested format needs pillow-heif and it is not installed
CodecMissing == cfg.format \in {"heic", "avif"} /\ ~cfg.heif_available

\* the run has ended on a configuration failure
ConfigFailed == pc \in {"exit_error", "exit_no_images"}

\* C20: a configuration failure (codec support missing for the requested
\* format, input folder nonexistent, no images found) ends the whole run
\* before any task is submitted and before any source file is modified: the
\* run goes from its start straight to the exit, no task is ever planned or
\* submitted, the file system is as before the run and no step follows.
C20_ConfigFailureEndsRun ==
    /\ (CodecMissing \/ ~cfg.input_exists) => pc \in {"start", "exit_error"}
    /\ (pc \notin {"start", "discover"} /\ images = <<>>) => ConfigFailed
    /\ pc = "exit_no_images" => PlannedImages(fs0, cfg) = <<>>
    /\ ConfigFailed =>
          /\ tasks = <<>>
          /\ submitted = 0
          /\ wpc = <<>>
          /\ consumed = {}
          /\ stats = InitialStats
          /\ fs = fs0
          /\ ~ENABLED Next

C20_Witness ==
    /\ pc = "exit_error"
    /\ CodecMissing
    /\ cfg.input_exists
    /\ cfg.replace
    /\ Cardinality(DOMAIN fs) >= 2

\* ---------------------------------------------------------------------------
\* C21  Destination planning is deterministic.

\* the names mkdtemp can draw for the staging folder
TmpNames == {TMP_FOLDER_NAME, TMP_FOLDER_OTHER}

\* planning once more over the same image list with the same arguments, the
\* staging folder drawn as name
PlannedAgain(name) == BuildTasks(fs0, images, 1, [cfg EXCEPT !.tmp = name])

Writers(p) == IF Exists(fs, p) THEN fs[p].by ELSE {}

\* C22: no two scheduled tasks of one run have the same destination path, and
\* no file is ever written by two workers, whatever the set of distinct source
\* files, with or without rename.
C22_DistinctDestinations ==
    /\ \A t \in TaskIds : \A u \in TaskIds :
          t # u => tasks[t].output # tasks[u].output
    /\ \A p \in DOMAIN fs : Cardinality(Writers(p)) <= 1 /\ ~fs[p].clash

\* ---------------------------------------------------------------------------
\* C23  The pool bounds the transforms that run at once.

\* the values os.cpu_count() can have, 0 for None
CpuCounts == 0..(WorkerCap + 2)

\* C23: in every reachable state the number of transforms executing at the same
\* time is at most the fixed worker count, which is at most 8 and at least 1
\* whatever the machine's processor count.
C23_AtMostWorkerCount ==
    /\ Cardinality(Running) <= MAX_WORKERS
    /\ MAX_WORKERS >= 1 /\ MAX_WORKERS <= 8
    /\ \A cpus \in CpuCounts : WorkersFor(cpus) >= 1 /\ WorkersFor(cpus) <= 8

\* every worker process is busy and a submitted task waits for one
C23_Witness ==
    /\ Cardinality(Running) = MAX_WORKERS
    /\ Queued # {}
    /\ WorkersFor(WorkerCap + 1) = 8
    /\ WorkersFor(0) = 4

\* ---------------------------------------------------------------------------
\* C24  The statistics of every reachable state.

\* the consumed tasks whose transform succeeded
ConsumedOk == {t \in consumed : ~result[t].error}

\* C24: in every reachable state processed + errors is the number of results
\* consumed so far and never exceeds the number of scheduled tasks; resized,
\* moved and replaced are each at most processed; moved and replaced are never
\* both non-zero; and the byte totals are the sums of the input and output
\* sizes of the successful tasks only.
C24_StatisticsInvariants ==
    /\ stats.processed + stats.errors = Cardinality(consumed)
    /\ stats.processed + stats.errors <= Len(tasks)
    /\ stats.processed = Cardinality(ConsumedOk)
    /\ stats.resized <= stats.processed
    /\ stats.moved <= stats.processed
    /\ stats.replaced <= stats.processed
    /\ ~(stats.moved > 0 /\ stats.replaced > 0)
    /\ stats.total_input_bytes
          = SumOver([t \in TaskIds |-> result[t].input_bytes], ConsumedOk)
    /\ stats.total_output_bytes
          = SumOver([t \in TaskIds |-> result[t].output_bytes], ConsumedOk)

\* a finished run with a resized and replaced image and with a failed
\* transform that had read the size of its source
C24_Witness ==
    /\ RunEnded
    /\ stats.processed > 0 /\ stats.resized > 0 /\ stats.replaced > 0
    /\ stats.total_output_bytes > 0
    /\ \E t \in consumed : result[t].error /\ result[t].input_bytes > 0

\* ---------------------------------------------------------------------------
\* C25  The computed size has no side below 1 and none above max-size.

\* the size calculate_new_size returns for the source of task t
ComputedSize(t) == calculate_new_size(result[t].orig_w, result[t].orig_h, cfg.max_size)

\* C25: for every image with width >= 1 and height >= 1 that needs a resize to
\* a max-size >= 1, the computed new width and new height are both at least 1
\* and neither exceeds max-size; so the resize of such an image never fails on
\* its size.
C25_SidesWithinBounds ==
    \A t \in MeasuredTasks :
        (/\ result[t].orig_w >= 1
         /\ result[t].orig_h >= 1
         /\ cfg.max_size >= 1
         /\ needs_resize(result[t].orig_w, result[t].orig_h, cfg.max_size))
        => /\ ComputedSize(t)[1] >= 1 /\ ComputedSize(t)[2] >= 1
           /\ ComputedSize(t)[1] <= cfg.max_size /\ ComputedSize(t)[2] <= cfg.max_size
           /\ ~ResizeRaises(result[t].orig_w, result[t].orig_h, cfg.max_size)

====
